---- MODULE Spec2Model ----
(***************************************************************************)
(* rgit (src/main.rs): the object store (data, hash_object, get_object,   *)
(* cat_file) and the tree builder (write_tree) over a filesystem.         *)
(*                                                                         *)
(* Bytes and characters are one-element strings ("NUL" is the byte 0x00,  *)
(* "LF" the byte 0x0a); byte strings, Rust Strings and paths are          *)
(* sequences of them.  The filesystem maps a sequence of path components  *)
(* (relative to the working directory) to a directory or a file.          *)
(***************************************************************************)
EXTENDS Integers, Sequences, FiniteSets, TLC

VARIABLES
    fs,        \* the filesystem under the working directory
    stack,     \* call stack of write_tree: one frame per directory being walked
    result,    \* what the last finished operation returned to its caller
    prev,      \* history: `result` before the last finished operation
    ops,       \* number of operations of the program started so far
    edits,     \* number of times the user rewrote a file
    initByData,\* history: TRUE once data() created the repository itself
    cur,       \* history: the write_tree call in progress
    last,      \* history: the last finished write_tree call
    lastBut,   \* history: the finished write_tree call before `last`
    writers    \* the concurrent callers of hash_object and where each one is

vars == <<fs, stack, result, prev, ops, edits, initByData, cur, last, lastBut,
          writers>>

----------------------------------------------------------------------------
(* Bounds *)

MaxOps == 2          \* operations of the program started in one behaviour
MaxEdits == 1        \* rewrites of a file by the user in one behaviour
MaxObjects == 4      \* entries the store root can hold in the model
MaxContentLen == 1   \* length of a caller-supplied content
MaxLate == 1         \* entries created after read_dir that one listing still yields

----------------------------------------------------------------------------
(* Characters *)

NUL == "NUL"
LF == "LF"
SP == " "
SLASH == "/"

None == <<>>
Some(x) == <<x>>

blob == <<"b", "l", "o", "b">>
tree == <<"t", "r", "e", "e">>

RGIT_DIR == <<".", "r", "g", "i", "t">>
RGIT_DIR_OBJECT == RGIT_DIR \o <<"/", "o", "b", "j", "e", "c", "t", "s">>
UGIT == <<".", "u", "g", "i", "t">>

LowerHex == <<"0", "1", "2", "3", "4", "5", "6", "7",
              "8", "9", "a", "b", "c", "d", "e", "f">>

\* the value of each byte the model uses
ByteCode ==
    ("NUL" :> 0) @@ ("LF" :> 10) @@ (" " :> 32) @@ ("." :> 46) @@ ("/" :> 47) @@
    ("0" :> 48) @@ ("1" :> 49) @@ ("2" :> 50) @@ ("3" :> 51) @@ ("4" :> 52) @@
    ("5" :> 53) @@ ("6" :> 54) @@ ("7" :> 55) @@ ("8" :> 56) @@ ("9" :> 57) @@
    ("a" :> 97) @@ ("b" :> 98) @@ ("c" :> 99) @@ ("d" :> 100) @@ ("e" :> 101) @@
    ("f" :> 102) @@ ("g" :> 103) @@ ("h" :> 104) @@ ("i" :> 105) @@ ("j" :> 106) @@
    ("l" :> 108) @@ ("o" :> 111) @@ ("r" :> 114) @@ ("s" :> 115) @@ ("t" :> 116) @@
    ("u" :> 117)

\* hex::encode: two lowercase hex digits per byte
HexEncode(bytes) ==
    [i \in 1..(2 * Len(bytes)) |->
        LET code == ByteCode[bytes[(i + 1) \div 2]]
        IN  IF i % 2 = 1 THEN LowerHex[(code \div 16) + 1]
                         ELSE LowerHex[(code % 16) + 1]]

\* Sha1::update + finalize.  The digest is kept as the hashed bytes
\* themselves: equal inputs give equal digests and distinct inputs distinct
\* ones (no collisions).
Sha1(bytes) == bytes

----------------------------------------------------------------------------
(* Strings and paths *)

\* str::contains
Contains(hay, needle) ==
    \E i \in 1..(Len(hay) - Len(needle) + 1) :
        SubSeq(hay, i, i + Len(needle) - 1) = needle

\* index of the first `sep` in s, Len(s) + 1 when there is none
FirstIndex(s, sep) ==
    IF \E i \in 1..Len(s) : s[i] = sep
    THEN CHOOSE i \in 1..Len(s) : s[i] = sep /\ \A j \in 1..(i - 1) : s[j] # sep
    ELSE Len(s) + 1

\* the pieces of s between occurrences of sep (BufRead::split: no empty
\* piece after a trailing sep, no piece at all for the empty input)
RECURSIVE Split(_, _)
Split(s, sep) ==
    IF s = <<>> THEN <<>>
    ELSE LET i == FirstIndex(s, sep)
         IN  <<SubSeq(s, 1, i - 1)>> \o Split(SubSeq(s, i + 1, Len(s)), sep)

\* the components the operating system resolves a relative path to
Components(path) ==
    SelectSeq(Split(path, SLASH), LAMBDA c : c # <<>> /\ c # <<".">>)

\* Path::join of a directory and a file name (DirEntry::path)
Join(dir, name) ==
    IF dir = <<>> \/ dir[Len(dir)] = SLASH THEN dir \o name
    ELSE dir \o <<SLASH>> \o name

\* format!("{}/objects/{}", RGIT_DIR, hash)
ObjectPath(hash) ==
    RGIT_DIR \o <<"/", "o", "b", "j", "e", "c", "t", "s", "/">> \o hash

----------------------------------------------------------------------------
(* Filesystem *)

DirNode == [isDir |-> TRUE, bytes |-> <<>>, readable |-> TRUE]
FileNode(bytes) == [isDir |-> FALSE, bytes |-> bytes, readable |-> TRUE]

\* a directory that cannot be listed, a file that cannot be read
LockedDir == [isDir |-> TRUE, bytes |-> <<>>, readable |-> FALSE]
LockedFile(bytes) == [isDir |-> FALSE, bytes |-> bytes, readable |-> FALSE]

Exists(f, key) == key \in DOMAIN f
IsDir(f, key) == key \in DOMAIN f /\ f[key].isDir
IsFile(f, key) == key \in DOMAIN f /\ ~f[key].isDir

Parent(key) == SubSeq(key, 1, Len(key) - 1)

\* names of the direct children of a directory (empty for anything else)
ChildNames(f, key) ==
    {k[Len(k)] : k \in {q \in DOMAIN f :
        Len(q) = Len(key) + 1 /\ SubSeq(q, 1, Len(key)) = key}}

StoreRootKey == Components(RGIT_DIR_OBJECT)

\* the entries of the store root: name |-> bytes
Store(f) == [h \in ChildNames(f, StoreRootKey) |-> f[Append(StoreRootKey, h)].bytes]

\* everything below a directory, by path relative to it
SubTree(f, key) ==
    LET below == {q \in DOMAIN f :
            Len(q) > Len(key) /\ SubSeq(q, 1, Len(key)) = key}
        rel(q) == SubSeq(q, Len(key) + 1, Len(q))
    IN  [r \in {rel(q) : q \in below} |-> f[key \o r]]

----------------------------------------------------------------------------
(* Object store *)

Res(op, arg, status, value, err) ==
    [op |-> op, arg |-> arg, status |-> status, value |-> value, err |-> err]

NoResult == Res("none", <<>>, "none", <<>>, "")

\* CreateAndWrite with the file opened for appending instead of truncated
CreateAndWrite_Append(f, key, data) ==
    [k \in DOMAIN f \cup {key} |->
        IF k # key THEN f[k]
        ELSE IF IsFile(f, key) THEN FileNode(f[key].bytes \o data)
        ELSE FileNode(data)]

\* File::create(path) then file.write(&data): the file is created or
\* truncated, then holds data
CreateAndWrite(f, key, data) ==
    [k \in DOMAIN f \cup {key} |-> IF k = key THEN FileNode(data) ELSE f[k]]

\* the bytes hash_object stores for (data, type_object): tag, 0x00, data
Encode(data, type_object) ==
    (IF type_object = None THEN blob ELSE type_object[1]) \o <<NUL>> \o data

\* hash of the encoded bytes, as the hex string used as file name
ObjectId(data, type_object) == HexEncode(Sha1(Encode(data, type_object)))

\* hash_object(data, type_object): the value returned and the filesystem left
hash_object(f, data, type_object) ==
    LET full == Encode(data, type_object)
        hash == HexEncode(Sha1(full))
        key  == Components(ObjectPath(hash))
    IN  IF ~IsDir(f, Parent(key)) \/ IsDir(f, key)
        THEN [status |-> "Err", value |-> <<>>, err |-> "io: NotFound", fs |-> f]
        ELSE [status |-> "Ok", value |-> hash, err |-> "",
              fs |-> CreateAndWrite(f, key, full)]

\* the model's store root holds at most MaxObjects entries
WithinCapacity(f, data, type_object) ==
    \/ ObjectId(data, type_object) \in DOMAIN Store(f)
    \/ Cardinality(DOMAIN Store(f)) < MaxObjects

\* get_object with a file that cannot be read taken as an empty blob
get_object_Default(f, oid, expected) ==
    LET key == Components(ObjectPath(oid))
    IN  IF ~IsFile(f, key)
        THEN [status |-> "Ok", value |-> <<>>, err |-> ""]
        ELSE [status |-> "Ok", value |-> f[key].bytes, err |-> ""]

\* get_object(oid, expected): the value returned, or the panic
get_object(f, oid, expected) ==
    LET key == Components(ObjectPath(oid))
    IN  IF ~IsFile(f, key)
        THEN [status |-> "Err", value |-> <<>>, err |-> "io: NotFound"]
        ELSE LET data == f[key].bytes
                 split_iter == Split(data, NUL)
             IN  IF split_iter = <<>>
                 THEN [status |-> "Panic", value |-> <<>>,
                       err |-> "unwrap on None"]
                 ELSE IF split_iter[1] # (IF expected = None THEN blob ELSE expected[1])
                 THEN [status |-> "Panic", value |-> <<>>,
                       err |-> IF expected = None THEN "unwrap on None"
                               ELSE "Expected, got"]
                 ELSE [status |-> "Ok", value |-> data, err |-> ""]

\* cat_file(hash): prints get_object(hash, None).expect("string")
cat_file(f, hash) ==
    LET got == get_object(f, hash, None)
    IN  IF got.status = "Ok" THEN got
        ELSE [status |-> "Panic", value |-> <<>>,
              err |-> IF got.status = "Err" THEN "expect on Err" ELSE got.err]

----------------------------------------------------------------------------
(* Inputs *)

ContentBytes == {"h", NUL}

\* caller-supplied contents
Contents == UNION {[1..n -> ContentBytes] : n \in 0..MaxContentLen}

Kinds == {blob, tree}
TypeArgs == {None} \cup {Some(k) : k \in Kinds}

\* a hash that names no object
MissingOid == <<"0", "0">>

\* hashes get_object is called with besides those of the stored objects:
\* one that is never stored and one that is stored by some calls only
ProbeOids == {MissingOid, ObjectId(<<>>, None)}

src == <<"s", "r", "c">>
lib == <<"l", "i", "b">>
b_file == <<"b">>
log_file == <<"l", "o", "g">>
dir_dir == <<"d", "i", "r">>

\* working directories the program is started in
Layouts ==
    { <<>>,
      (<<src>> :> DirNode) @@ (<<src, b_file>> :> FileNode(<<"h">>)),
      (<<src>> :> DirNode) @@ (<<src, b_file>> :> FileNode(<<"h">>))
          @@ (<<src, UGIT>> :> FileNode(<<"h">>)),
      (<<src>> :> DirNode) @@ (<<src, b_file>> :> FileNode(<<"h">>))
          @@ (<<lib>> :> DirNode) @@ (<<lib, b_file>> :> FileNode(<<"h">>)),
      (<<src>> :> DirNode) @@ (<<src, b_file>> :> FileNode(<<"h">>))
          @@ (<<src, log_file>> :> LockedFile(<<"h">>))
          @@ (<<src, dir_dir>> :> LockedDir) }

\* what is there of a repository before the program runs
Repos ==
    { <<>>,
      (<<RGIT_DIR>> :> DirNode),
      (<<RGIT_DIR>> :> DirNode) @@ (StoreRootKey :> DirNode) }

\* paths write_tree is called with
TreeArgs ==
    { <<".">>, src \o <<SLASH>>, lib, src \o <<SLASH>> \o b_file }

----------------------------------------------------------------------------
(* Tree builder: one frame per write_tree call on the stack *)

NoRun == [d |-> <<>>, isDir |-> FALSE, sub |-> <<>>, before |-> <<>>, visits |-> <<>>]

NoLast == [status |-> "none", d |-> <<>>, isDir |-> FALSE, sub |-> <<>>, visits |-> <<>>,
           oid |-> <<>>, before |-> <<>>, after |-> <<>>]

\* `entries` is empty; read_dir(dir) is opened when dir.is_dir().  snap is
\* what the directory holds when the listing is opened, seen what the
\* listing has yielded so far.
Frame(f, dir) ==
    [dir |-> dir, snap |-> ChildNames(f, Components(dir)), seen |-> {},
     entries |-> <<>>]

\* names the listing of the top frame can yield next: a child not yet
\* yielded, either there since the listing was opened or created since
Yieldable(f, fr) ==
    {n \in ChildNames(f, Components(fr.dir)) \ fr.seen :
        n \in fr.snap \/ Cardinality(fr.seen \ fr.snap) < MaxLate}

\* the listing can end once everything it was opened on has been yielded
Exhausted(fr) == fr.snap \subseteq fr.seen

\* TreePayload with every entry written with the kind word of a file
RECURSIVE TreePayload_AllBlob(_)
TreePayload_AllBlob(entries) ==
    IF entries = <<>> THEN <<>>
    ELSE LET e == Head(entries)
         IN  blob \o <<SP>> \o e.oid \o <<SP>> \o e.filename \o <<LF>>
                \o TreePayload_AllBlob(Tail(entries))

\* format!("{} {} {}\n", _type, oid, filename) over the entries, in order
RECURSIVE TreePayload(_)
TreePayload(entries) ==
    IF entries = <<>> THEN <<>>
    ELSE LET e == Head(entries)
         IN  e.type \o <<SP>> \o e.oid \o <<SP>> \o e.filename \o <<LF>>
                \o TreePayload(Tail(entries))

SetTop(st, fr) == [st EXCEPT ![Len(st)] = fr]

\* path of a visited child relative to the directory write_tree was called on
RelKey(d, path) ==
    SubSeq(Components(path), Len(Components(d)) + 1, Len(Components(path)))

\* Finish with the error swallowed by the failing call: the tree of the
\* entries collected so far is stored before the error is returned
Finish_StorePartial(status, value, err, f) ==
    LET kept == IF status = "Err" /\ stack # <<>>
                THEN hash_object(f, TreePayload(stack[Len(stack)].entries),
                                 Some(tree)).fs
                ELSE f
    IN  /\ stack' = <<>>
        /\ fs' = kept
        /\ prev' = result
        /\ result' = Res("write_tree", cur.d, status, value, err)
        /\ lastBut' = last
        /\ last' = [status |-> status, d |-> cur.d, isDir |-> cur.isDir,
                    sub |-> cur.sub, visits |-> cur.visits, oid |-> value,
                    before |-> cur.before, after |-> Store(kept)]
        /\ cur' = NoRun
        /\ UNCHANGED <<ops, edits, initByData, writers>>

\* the outermost write_tree call returns to its caller
Finish(status, value, err, f) ==
    /\ stack' = <<>>
    /\ fs' = f
    /\ prev' = result
    /\ result' = Res("write_tree", cur.d, status, value, err)
    /\ lastBut' = last
    /\ last' = [status |-> status, d |-> cur.d, isDir |-> cur.isDir, sub |-> cur.sub,
                visits |-> cur.visits, oid |-> value,
                before |-> cur.before, after |-> Store(f)]
    /\ cur' = NoRun
    /\ UNCHANGED <<ops, edits, initByData, writers>>

----------------------------------------------------------------------------
(* Initial states *)

Init ==
    /\ \E layout \in Layouts, repo \in Repos :
          fs = (<<>> :> DirNode) @@ layout @@ repo
    /\ stack = <<>>
    /\ result = NoResult
    /\ prev = NoResult
    /\ ops = 0
    /\ edits = 0
    /\ initByData = FALSE
    /\ cur = NoRun
    /\ last = NoLast
    /\ lastBut = NoLast
    /\ writers = <<>>

Idle == stack = <<>> /\ ops < MaxOps

\* an operation other than write_tree returns
Return(op, arg, out) ==
    /\ result' = Res(op, arg, out.status, out.value, out.err)
    /\ prev' = result
    /\ ops' = ops + 1
    /\ UNCHANGED <<stack, edits, cur, last, lastBut, writers>>

----------------------------------------------------------------------------
(* Operations *)

\* data with fs::create_dir_all, which succeeds on an existing directory
data_CreateDirAll ==
    /\ Idle
    /\ Return("data", <<>>, [status |-> "Ok", value |-> <<>>, err |-> ""])
    /\ fs' = (Components(RGIT_DIR) :> DirNode) @@ fs
    /\ initByData' = ~Exists(fs, Components(RGIT_DIR))

\* init: data() is fs::create_dir(RGIT_DIR)
data ==
    /\ Idle
    /\ LET key == Components(RGIT_DIR)
       IN  IF Exists(fs, key)
           THEN /\ Return("data", <<>>,
                       [status |-> "Err", value |-> <<>>, err |-> "io: AlreadyExists"])
                /\ UNCHANGED <<fs, initByData>>
           ELSE /\ Return("data", <<>>, [status |-> "Ok", value |-> <<>>, err |-> ""])
                /\ fs' = (key :> DirNode) @@ fs
                /\ initByData' = TRUE

\* put: hash_object(data, type_object) called on its own
HashObject ==
    /\ Idle
    /\ \E content \in Contents, type_object \in TypeArgs :
          /\ WithinCapacity(fs, content, type_object)
          /\ LET out == hash_object(fs, content, type_object)
             IN  /\ Return("hash_object", <<content, type_object>>, out)
                 /\ fs' = out.fs
    /\ UNCHANGED initByData

\* get: get_object(oid, expected)
GetObject ==
    /\ Idle
    /\ \E oid \in DOMAIN Store(fs) \cup ProbeOids, expected \in TypeArgs :
          Return("get_object", <<oid, expected>>, get_object(fs, oid, expected))
    /\ UNCHANGED <<fs, initByData>>

\* cat-file: cat_file(hash)
CatFile ==
    /\ Idle
    /\ \E hash \in DOMAIN Store(fs) \cup {MissingOid} :
          Return("cat_file", <<hash>>, cat_file(fs, hash))
    /\ UNCHANGED <<fs, initByData>>

\* the user rewrites a file of the working directory between two commands
EditFile ==
    /\ stack = <<>>
    /\ edits < MaxEdits
    /\ \E key \in DOMAIN fs, content \in Contents :
          /\ IsFile(fs, key)
          /\ key[1] # RGIT_DIR
          /\ content # fs[key].bytes
          /\ fs' = [fs EXCEPT ![key].bytes = content]
    /\ edits' = edits + 1
    /\ UNCHANGED <<stack, result, prev, ops, initByData, cur, last, lastBut, writers>>

\* write_tree(dir) is called by the program: lines 216-218
WriteTreeCall ==
    /\ Idle
    /\ \E d \in TreeArgs :
          /\ stack' = <<Frame(fs, d)>>
          /\ cur' = [d |-> d, isDir |-> IsDir(fs, Components(d)),
                     sub |-> SubTree(fs, Components(d)),
                     before |-> Store(fs), visits |-> <<>>]
    /\ ops' = ops + 1
    /\ UNCHANGED <<fs, result, prev, edits, initByData, last, lastBut, writers>>

\* one turn of the loop on a child whose path contains ".ugit": continue
WriteTreeSkip ==
    /\ stack # <<>>
    /\ LET top == stack[Len(stack)]
       IN  \E name \in Yieldable(fs, top) :
              LET path == Join(top.dir, name)
              IN  /\ Contains(path, UGIT)
                  /\ stack' = SetTop(stack, [top EXCEPT !.seen = @ \cup {name}])
                  /\ cur' = [cur EXCEPT !.visits = Append(@, RelKey(cur.d, path))]
    /\ UNCHANGED <<fs, result, prev, ops, edits, initByData, last, lastBut, writers>>

\* one turn of the loop on a directory: write_tree(&path) is called, and
\* returns at once when read_dir(dir)? fails
WriteTreeRecurse ==
    /\ stack # <<>>
    /\ LET top == stack[Len(stack)]
       IN  \E name \in Yieldable(fs, top) :
              LET path == Join(top.dir, name)
              IN  /\ ~Contains(path, UGIT)
                  /\ IsDir(fs, Components(path))
                  /\ IF fs[Components(path)].readable
                     THEN /\ stack' = Append(SetTop(stack,
                                            [top EXCEPT !.seen = @ \cup {name}]),
                                        Frame(fs, path))
                          /\ cur' = [cur EXCEPT
                                        !.visits = Append(@, RelKey(cur.d, path))]
                          /\ UNCHANGED <<fs, result, prev, ops, edits, initByData,
                                         last, lastBut, writers>>
                     ELSE Finish("Err", <<>>, "io: PermissionDenied", fs)

\* one turn of the loop on a file: hash_object(fs::read(&path)?, None)?
WriteTreeBlob ==
    /\ stack # <<>>
    /\ LET top == stack[Len(stack)]
       IN  \E name \in Yieldable(fs, top) :
              LET path == Join(top.dir, name)
                  key  == Components(path)
                  out  == hash_object(fs, fs[key].bytes, None)
              IN  /\ ~Contains(path, UGIT)
                  /\ ~IsDir(fs, key)
                  /\ (fs[key].readable => WithinCapacity(fs, fs[key].bytes, None))
                  /\ IF ~fs[key].readable
                     THEN Finish("Err", <<>>, "io: PermissionDenied", fs)
                     ELSE IF out.status = "Ok"
                     THEN /\ fs' = out.fs
                          /\ stack' = SetTop(stack,
                                [top EXCEPT !.seen = @ \cup {name},
                                            !.entries = Append(@,
                                                [filename |-> path, oid |-> out.value,
                                                 type |-> blob])])
                          /\ cur' = [cur EXCEPT !.visits = Append(@, RelKey(cur.d, path))]
                          /\ UNCHANGED <<result, prev, ops, edits, initByData, last, lastBut, writers>>
                     ELSE Finish("Err", <<>>, out.err, fs)

\* the loop is over: lines 243-248, and the caller's lines 231 and 238-239
WriteTreeReturn ==
    /\ stack # <<>>
    /\ LET top == stack[Len(stack)]
           payload == TreePayload(top.entries)
           out == hash_object(fs, payload, Some(tree))
       IN  /\ Exhausted(top)
           /\ WithinCapacity(fs, payload, Some(tree))
           /\ IF out.status = "Err" THEN Finish("Err", <<>>, out.err, fs)
              ELSE IF Len(stack) = 1 THEN Finish("Ok", out.value, "", out.fs)
              ELSE LET caller == stack[Len(stack) - 1]
                   IN  /\ fs' = out.fs
                       /\ stack' = SetTop(SubSeq(stack, 1, Len(stack) - 1),
                             [caller EXCEPT !.entries = Append(@,
                                 [filename |-> top.dir, oid |-> out.value,
                                  type |-> tree])])
                       /\ UNCHANGED <<result, prev, ops, edits, initByData, cur, last, lastBut, writers>>

Next ==
    \/ data
    \/ HashObject
    \/ GetObject
    \/ CatFile
    \/ EditFile
    \/ WriteTreeCall
    \/ WriteTreeSkip
    \/ WriteTreeRecurse
    \/ WriteTreeBlob
    \/ WriteTreeReturn

Spec == Init /\ [][Next]_vars

----------------------------------------------------------------------------
(* Reading back what was stored *)

KindOf(type_object) == IF type_object = None THEN blob ELSE type_object[1]

OtherKind(k) == IF k = blob THEN tree ELSE blob

\* the bytes of a stored object after its first 0x00
PayloadOf(bytes) == SubSeq(bytes, FirstIndex(bytes, NUL) + 1, Len(bytes))

\* the lines "<kind> <hash> <name>" of a tree payload, as records
TreeLines(payload) ==
    LET lines == Split(payload, LF)
    IN  [i \in 1..Len(lines) |->
            LET fields == Split(lines[i], SP)
            IN  [type |-> fields[1], oid |-> fields[2], name |-> fields[3]]]

\* the entries of the tree the last finished write_tree call returned
LastEntries == TreeLines(PayloadOf(last.after[last.oid]))

\* final component of a path
FinalComponent(path) == Components(path)[Len(Components(path))]

\* names of the direct children the directory had when write_tree was called
LastChildren == {r[1] : r \in {q \in DOMAIN last.sub : Len(q) = 1}}

----------------------------------------------------------------------------
(* Claims *)

\* C1: put/get round trip: when put(k, c) returned hash h, get(h, Some(k))
\* succeeds and returns exactly c, the tag and the 0x00 separator stripped.
C1_PutGetRoundTrip ==
    ( /\ prev.op = "hash_object" /\ prev.status = "Ok"
      /\ result.op = "get_object"
      /\ result.arg = <<prev.value, Some(KindOf(prev.arg[2]))>> )
    => (result.status = "Ok" /\ result.value = prev.arg[1])

\* C2: kind checking applies only when an expected kind is supplied:
\* get(h, None) succeeds on every stored object, whatever its kind.
C2_GetWithoutKind ==
    ( /\ result.op = "get_object"
      /\ result.arg[2] = None
      /\ result.arg[1] \in DOMAIN Store(fs) )
    => result.status = "Ok"

\* C3: kind enforcement: when put(k, c) returned h, get(h, Some(k')) with
\* the other kind k' returns no content and fails with KindMismatch, a
\* failure value returned to the caller.
C3_KindMismatchReturned ==
    ( /\ prev.op = "hash_object" /\ prev.status = "Ok"
      /\ result.op = "get_object"
      /\ result.arg = <<prev.value, Some(OtherKind(KindOf(prev.arg[2])))>> )
    => (result.status = "Err" /\ result.err = "KindMismatch")

\* C4: after initialize() succeeded on a medium without a repository the
\* store root exists and every following put succeeds, with no other
\* set-up step in between.
C4_InitMakesStoreUsable ==
    (initByData /\ result.op = "hash_object")
    => (IsDir(fs, StoreRootKey) /\ result.status = "Ok")

\* C5: dedup idempotence: a put(k, c) that follows a successful put(k, c)
\* succeeds, returns the same hash, leaves the stored entries and their
\* bytes as they were, and get returns the same before and after it.
C5_PutTwice ==
    [][ ( /\ result.op = "hash_object" /\ result.status = "Ok"
          /\ result'.op = "hash_object" /\ ops' = ops + 1
          /\ result'.arg = result.arg )
        => ( /\ result'.status = "Ok"
             /\ result'.value = result.value
             /\ result.value \in DOMAIN Store(fs')
             /\ Store(fs') = Store(fs)
             /\ fs' = fs
             /\ \A e \in TypeArgs :
                   get_object(fs', result.value, e) = get_object(fs, result.value, e) )
      ]_vars

\* a second put(k, c) has just returned
C5_Witness ==
    /\ prev.op = "hash_object" /\ prev.status = "Ok"
    /\ result.op = "hash_object" /\ result.status = "Ok"
    /\ result.arg = prev.arg
    /\ result.value = prev.value
    /\ result.value \in DOMAIN Store(fs)

\* C6: write_tree never snapshots the store: when d has the reserved
\* directory .rgit among its children, the tree returned has no entry for
\* it, and a d holding nothing else yields the empty-payload tree.
C6_StoreNotSnapshotted ==
    (last.status = "Ok" /\ RGIT_DIR \in LastChildren)
    => ( /\ \A i \in 1..Len(LastEntries) :
               FinalComponent(LastEntries[i].name) # RGIT_DIR
         /\ (LastChildren = {RGIT_DIR} => PayloadOf(last.after[last.oid]) = <<>>) )

\* C7: in a tree stored by write_tree the name of every entry is the final
\* path component of the child: one segment, no separator in it.
C7_NameIsFinalComponent ==
    last.status = "Ok"
    => \A i \in 1..Len(LastEntries) :
          /\ LastEntries[i].name = FinalComponent(LastEntries[i].name)
          /\ \A j \in 1..Len(LastEntries[i].name) : LastEntries[i].name[j] # SLASH

\* C8: the tree of d enumerates exactly d's direct children: every child
\* other than the reserved directory has exactly one entry, of kind tree
\* for a directory and blob for a file, and every entry is for a child.
C8_ExactlyDirectChildren ==
    (last.status = "Ok" /\ last.isDir)
    => ( /\ \A n \in LastChildren \ {RGIT_DIR} :
               /\ Cardinality({i \in 1..Len(LastEntries) :
                      FinalComponent(LastEntries[i].name) = n}) = 1
               /\ \A i \in 1..Len(LastEntries) :
                      FinalComponent(LastEntries[i].name) = n
                      => LastEntries[i].type =
                            (IF last.sub[<<n>>].isDir THEN tree ELSE blob)
         /\ \A i \in 1..Len(LastEntries) :
               FinalComponent(LastEntries[i].name) \in LastChildren )

\* C9: write_tree is idempotent on an unchanged directory: when a call on
\* d succeeded and the next call on d finds the same contents under d and
\* lists them in the same order, it returns the same hash and leaves the
\* stored entries as they were before it.
C9_WriteTreeTwice ==
    ( /\ lastBut.status = "Ok" /\ last.status # "none"
      /\ last.d = lastBut.d
      /\ last.sub = lastBut.sub
      /\ last.visits = lastBut.visits )
    => ( /\ last.status = "Ok"
         /\ last.oid = lastBut.oid
         /\ last.after = last.before )

\* a second write_tree on an unchanged directory with children has returned
C9_Witness ==
    /\ lastBut.status = "Ok" /\ last.status = "Ok"
    /\ last.d = lastBut.d
    /\ last.sub = lastBut.sub
    /\ last.visits = lastBut.visits
    /\ last.visits # <<>>
    /\ last.oid = lastBut.oid
    /\ LastEntries # <<>>

\* C10: a tree's hash depends only on the contents of the subtree: two
\* directories at different paths with the same children (names, kinds,
\* contents) listed in the same order get the same hash.
C10_SameSubtreeSameHash ==
    ( /\ lastBut.status = "Ok" /\ last.status = "Ok"
      /\ last.isDir /\ lastBut.isDir
      /\ last.d # lastBut.d
      /\ last.sub = lastBut.sub
      /\ last.visits = lastBut.visits )
    => last.oid = lastBut.oid

----------------------------------------------------------------------------
(* Claims on the object graph and the store *)

\* the tag of a stored object: its bytes before the first 0x00
TagOf(bytes) == SubSeq(bytes, 1, FirstIndex(bytes, NUL) - 1)

\* stored objects tagged tree whose payload is a list of entry lines
ListedTrees(f) ==
    {h \in DOMAIN Store(f) :
        /\ TagOf(Store(f)[h]) = tree
        /\ \A line \in {Split(PayloadOf(Store(f)[h]), LF)[i] :
                 i \in 1..Len(Split(PayloadOf(Store(f)[h]), LF))} :
              Len(Split(line, SP)) = 3}

\* C11: referential closure: in every state, also in the middle of a
\* write_tree call, every entry (kind, hash) of a stored tree refers to an
\* object that is in the store and carries that kind.
C11_ReferentialClosure ==
    \A h \in ListedTrees(fs) :
        LET entries == TreeLines(PayloadOf(Store(fs)[h]))
        IN  \A i \in 1..Len(entries) :
               /\ entries[i].oid \in DOMAIN Store(fs)
               /\ TagOf(Store(fs)[entries[i].oid]) = entries[i].type

\* a stored tree refers to a stored blob and another to a stored tree
C11_Witness ==
    /\ \E h \in ListedTrees(fs) :
          \E i \in 1..Len(TreeLines(PayloadOf(Store(fs)[h]))) :
             TreeLines(PayloadOf(Store(fs)[h]))[i].type = tree
    /\ \E h \in ListedTrees(fs) :
          \E i \in 1..Len(TreeLines(PayloadOf(Store(fs)[h]))) :
             TreeLines(PayloadOf(Store(fs)[h]))[i].type = blob


\* every entry of the store root is named by the hash of its own bytes,
\* and its bytes are a kind tag, one 0x00 and a content
StoreIntact(f) ==
    \A h \in DOMAIN Store(f) :
        LET bytes == Store(f)[h]
        IN  /\ h = HexEncode(Sha1(bytes))
            /\ bytes # <<>>
            /\ \E k \in Kinds : bytes = Encode(PayloadOf(bytes), Some(k))

C13_NoAbort ==
    result.op \in {"hash_object", "get_object", "data", "write_tree"}
    => result.status # "Panic"

\* C14: re-initialization is an error: data() on an existing repository
\* returns a failure and leaves every stored object present and unchanged.
C14_ReinitFails ==
    [][ ( /\ result'.op = "data" /\ ops' = ops + 1 /\ stack' = <<>>
          /\ Exists(fs, Components(RGIT_DIR)) )
        => ( /\ result'.status = "Err"
             /\ fs' = fs
             /\ Store(fs') = Store(fs) )
      ]_vars

\* data() has failed on a repository that holds an object
C14_Witness ==
    /\ result.op = "data" /\ result.status = "Err"
    /\ result.err = "io: AlreadyExists"
    /\ DOMAIN Store(fs) # {}

\* C15: missing object: get(h, e) for an h with no entry in the store
\* fails with the not-found error for every expected kind e, None
\* included, returns no content and leaves the store unchanged.
C15_MissingObject ==
    [][ ( /\ result'.op = "get_object" /\ ops' = ops + 1 /\ stack' = <<>>
          /\ result'.arg[1] \notin DOMAIN Store(fs) )
        => ( /\ result'.status = "Err"
             /\ result'.err = "io: NotFound"
             /\ result'.value = <<>>
             /\ fs' = fs )
      ]_vars

\* get has failed on a missing hash while the store holds other objects
C15_Witness ==
    /\ result.op = "get_object"
    /\ result.arg[1] \notin DOMAIN Store(fs)
    /\ result.status = "Err" /\ result.err = "io: NotFound"
    /\ DOMAIN Store(fs) # {}

\* C16: write_tree does not apply to a non-directory: on a path that is a
\* regular file or does not exist it stores no object and returns no hash.
C16_NonDirectoryStoresNothing ==
    (last.status # "none" /\ ~last.isDir)
    => (last.status # "Ok" /\ last.after = last.before)

\* C17: write_tree runs to completion after visiting each pre-existing
\* child once, also when the directory holds the store: what the walk has
\* visited so far was under the directory when write_tree was called.
C17_VisitsPreExistingOnly ==
    \A i \in 1..Len(cur.visits) : cur.visits[i] \in DOMAIN cur.sub

----------------------------------------------------------------------------
(* Concurrent callers of hash_object: File::create and file.write are two  *)
(* steps, and the steps of two callers interleave                          *)

\* File::create(path): the file exists and is empty
CreateFile(f, key) ==
    [k \in DOMAIN f \cup {key} |-> IF k = key THEN FileNode(<<>>) ELSE f[k]]

\* WriteAtStart with the file opened for appending: the bytes go after
\* what the file holds
WriteAtStart_Append(f, key, bytes) ==
    [f EXCEPT ![key].bytes = @ \o bytes]

\* file.write(&data) through a handle that has written nothing yet: the
\* bytes go over the file from its first byte
WriteAtStart(f, key, bytes) ==
    [f EXCEPT ![key].bytes = bytes \o SubSeq(@, Len(bytes) + 1, Len(@))]

Writer(content, type_object) ==
    [content |-> content, type_object |-> type_object, pc |-> "start",
     status |-> "none", value |-> <<>>]

\* two callers are about to run hash_object; the store root may be missing
\* and may already hold the object of the first caller
InitConc ==
    /\ \E repo \in Repos \ {<<>>}, held \in BOOLEAN,
          c1 \in Contents, c2 \in Contents, t1 \in TypeArgs, t2 \in TypeArgs :
          LET f0 == (<<>> :> DirNode) @@ repo
              f1 == IF held THEN hash_object(f0, c1, t1).fs ELSE f0
          IN  /\ fs = f1
              /\ writers = [start |-> f1, raced |-> FALSE,
                            w |-> <<Writer(c1, t1), Writer(c2, t2)>>]
    /\ stack = <<>>
    /\ result = NoResult
    /\ prev = NoResult
    /\ ops = 0
    /\ edits = 0
    /\ initByData = FALSE
    /\ cur = NoRun
    /\ last = NoLast
    /\ lastBut = NoLast

\* lines 185-192 of one caller: the hash is computed and the file created
ConcCreate ==
    /\ \E i \in 1..2 :
          LET me   == writers.w[i]
              full == Encode(me.content, me.type_object)
              key  == Components(ObjectPath(HexEncode(Sha1(full))))
          IN  /\ me.pc = "start"
              /\ IF ~IsDir(fs, Parent(key)) \/ IsDir(fs, key)
                 THEN /\ fs' = fs
                      /\ writers' = [writers EXCEPT
                            !.w[i].pc = "done", !.w[i].status = "Err"]
                 ELSE /\ fs' = CreateFile(fs, key)
                      /\ writers' = [writers EXCEPT
                            !.w[i].pc = "created",
                            !.raced = @ \/ writers.w[3 - i].pc = "created"]
    /\ UNCHANGED <<stack, result, prev, ops, edits, initByData, cur, last, lastBut>>

\* lines 193-194 of one caller: the bytes are written and the hash returned
ConcWrite ==
    /\ \E i \in 1..2 :
          LET me   == writers.w[i]
              full == Encode(me.content, me.type_object)
              hash == HexEncode(Sha1(full))
          IN  /\ me.pc = "created"
              /\ fs' = WriteAtStart(fs, Components(ObjectPath(hash)), full)
              /\ writers' = [writers EXCEPT
                    !.w[i].pc = "done", !.w[i].status = "Ok", !.w[i].value = hash]
    /\ UNCHANGED <<stack, result, prev, ops, edits, initByData, cur, last, lastBut>>

NextConc ==
    \/ ConcCreate
    \/ ConcWrite

SpecConc == InitConc /\ [][NextConc]_vars

\* C18: concurrent puts are safe: once both callers have returned, under
\* every interleaving of their create and write steps, each has got what
\* it gets when the two calls run one after the other, and the store is
\* the one the sequential run leaves: callers of the same (k, c) get the
\* same hash and its one entry holds exactly encode(k, c).
C18_ConcurrentPutsSafe ==
    (writers.w[1].pc = "done" /\ writers.w[2].pc = "done")
    => LET a == writers.w[1]
           b == writers.w[2]
           first  == hash_object(writers.start, a.content, a.type_object)
           second == hash_object(first.fs, b.content, b.type_object)
       IN  /\ fs = second.fs
           /\ a.status = first.status /\ a.value = first.value
           /\ b.status = second.status /\ b.value = second.value
           /\ (Encode(a.content, a.type_object) = Encode(b.content, b.type_object)
                 /\ a.status = "Ok")
              => ( /\ a.value = b.value
                   /\ Store(fs)[a.value] = Encode(a.content, a.type_object)
                   /\ DOMAIN Store(fs) = {a.value} )

\* two callers of the same (k, c) have both returned after the second one
\* created the file while the first had not yet written it
C18_Witness ==
    /\ writers.w[1].pc = "done" /\ writers.w[2].pc = "done"
    /\ writers.raced
    /\ writers.w[1].status = "Ok" /\ writers.w[2].status = "Ok"
    /\ writers.w[1].value = writers.w[2].value
    /\ Store(fs)[writers.w[1].value]
          = Encode(writers.w[1].content, writers.w[1].type_object)

----------------------------------------------------------------------------
(* Failure in the middle of write_tree *)

\* the lines of the payload of a stored object
LinesOf(bytes) ==
    {Split(PayloadOf(bytes), LF)[i] : i \in 1..Len(Split(PayloadOf(bytes), LF))}

\* the object is tagged tree and its payload is a list of entry lines
ListsEntries(bytes) ==
    /\ TagOf(bytes) = tree
    /\ \A line \in LinesOf(bytes) : Len(Split(line, SP)) = 3

\* the directories that hold the children named by the entries of a tree
EntryParents(bytes) ==
    {Parent(Components(Split(line, SP)[3])) : line \in LinesOf(bytes)}

====
